---- MODULE Spec2Model ----
(***************************************************************************)
(* The retry orchestrator of common_utils/retry.py: retry_with wraps an    *)
(* operation func; one call of the wrapped operation (decorated) runs the  *)
(* for-loop over attempts, classifies what func raised or returned, calls  *)
(* the retry handler and ends by returning a value or raising a failure.   *)
(*                                                                         *)
(* A wrapped call is identified by c.  Its policy (the arguments given to  *)
(* retry_with) is fixed when the wrapper is built; attempt, error and      *)
(* result are the locals of decorated.  trace[c] is the history of what    *)
(* the call invoked (func and handle_retry.retry), in order; outcome[c] is *)
(* how the call ended.  What func returns or raises is the environment's   *)
(* choice at every invocation.  Failure kinds are classes derived from     *)
(* Exception, which is what the except clause of decorated catches.        *)
(*                                                                         *)
(* Beside it: the delay calculator DelayWithExponential (SpecDelay), the   *)
(* table methods of bigquery/table_interface.py against a table service    *)
(* that other clients use too (SpecBQ), and the removal and listing loops  *)
(* of google_group/api.py against the Cloud Identity service (SpecGroups). *)
(* Each specification starts the other parts idle and leaves them so.      *)
(***************************************************************************)
EXTENDS Integers, Sequences, FiniteSets, TLC

VARIABLES policy, pc, args, kwargs, attempt, error, result, outcome, trace

\* a DelayWithExponential object and its calls: its fields, the attempt of
\* the last call, and what the last call and the call before it gave
VARIABLES dcfg, dattempt, dprev, dlast

\* a BigQueryTableRelease and the service behind its client: the tables of
\* the service, where the running method stands, its arguments, the
\* requests it has sent and what it returned or raised
VARIABLES bqTables, bqpc, bqArg, bqReqs, bqRet

\* a Groups object and the Cloud Identity service behind it: the groups in
\* which the member has a membership (now, and when the running method was
\* called), where the running method stands, its arguments, its loop
\* position, the requests it has sent, what it returned or raised, and the
\* locals next_page_token, group_list and response of the listing methods
VARIABLES gMemberships, gBefore, gpc, gArg, gIndex, gReqs, gRet,
          gToken, gList, gResp

rvars == <<policy, pc, args, kwargs, attempt, error, result, outcome, trace>>

dvars == <<dcfg, dattempt, dprev, dlast>>

bvars == <<bqTables, bqpc, bqArg, bqReqs, bqRet>>

gvars == <<gMemberships, gBefore, gpc, gArg, gIndex, gReqs, gRet,
           gToken, gList, gResp>>

vars == <<rvars, dvars, bvars, gvars>>

(* ------------------------------ bounds ---------------------------------- *)

\* the largest max_attempts a policy is given
MaxAttemptsBound == 3
\* func returns one of the values 1..NumValues
NumValues == 2
\* the delay calculator is called for the attempts 1..MaxDelayAttempt
MaxDelayAttempt == 1030
\* random() gives 0 or one of 2^-1 .. 2^-JitterBits
JitterBits == 2
\* the service holds the tables 1..NumTables, each with one of the schemas
\* 1..NumSchemas
NumTables == 2
NumSchemas == 2
\* the customer has the groups 1..NumGroups; group_ids has at most
\* MaxGroupIds entries
NumGroups == 2
MaxGroupIds == 3
\* a listing call is followed for at most MaxRequests page requests
MaxRequests == 3

(* ------------------------------ values ---------------------------------- *)

\* Python's None as the initial value of result
NoneValue == 0

Values == 1 .. NumValues

\* Python's None where a failure could stand (error = None)
NoError == [kind |-> "None", by |-> "nobody", call |-> 0, at |-> 0]

\* a failure object: its class, who raised it (func or the handler's retry),
\* and in which call and attempt it was raised (its identity)
Failure(kind, by, c, at) == [kind |-> kind, by |-> by, call |-> c, at |-> at]

\* the keyword arguments of a call: a dict
Dict(items) == [tag |-> "dict", items |-> items]

\* the failure classes func raises here; each derives from Exception
FuncKinds == {"HttpError", "TimeoutError", "TypeError"}

\* the classes a failure of class kind is an instance of
Mro(kind) == {kind, "Exception"}

\* isinstance(err, exc)
IsInstance(err, exc) == exc \in Mro(err.kind)

(* ------------------------------ policies -------------------------------- *)

\* the two handlers: a recording handler whose retry takes the five
\* arguments the orchestrator passes and returns, and the class
\* RetryWithExponentialBackoff of the module
Handlers == {"Recording", "RetryWithExponentialBackoff"}

\* the number of parameters of handler.retry, self not counted
RetryParams(handler) == IF handler = "RetryWithExponentialBackoff" THEN 1 ELSE 5

\* the allow-listed exception classes a policy may carry
ExceptionLists ==
    { {}, {"HttpError"}, {"TypeError"}, {"HttpError", "TimeoutError"}, {"Exception"} }

\* the result guards a policy may carry: an ordered list of predicates, each
\* given by the set of results it is true of
GuardLists == { <<>>, <<{1}>>, <<Values>>, <<{1}, Values \ {1}>> }

Policies ==
    [handle_retry : Handlers, exceptions : ExceptionLists,
     conditions : GuardLists, max_attempts : 1 .. MaxAttemptsBound]

\* the arguments a wrapped call is given
Invocations ==
    { [args |-> <<1>>, kwargs |-> Dict({})],
      [args |-> <<1, 2>>, kwargs |-> Dict({<<"timeout", 1>>})] }

(* ------------------------------ decisions ------------------------------- *)

\* every failure is retried, allow-listed or not
RetryableAnyException(err, exceptions) == TRUE

\* any(isinstance(err, exc) for exc in exceptions)
Retryable(err, exceptions) == \E exc \in exceptions : IsInstance(err, exc)

\* all(...) in the place of any(...)
AnyGuardAll(conditions, res) == \A i \in 1 .. Len(conditions) : res \in conditions[i]

\* any(guard(result) for guard in conditions)
AnyGuard(conditions, res) == \E i \in 1 .. Len(conditions) : res \in conditions[i]

\* range(1, max_attempts): one attempt fewer
HasNextOneFewer(att, max_attempts) == att + 1 < max_attempts

\* range(1, max_attempts + 2): one attempt more
HasNextOneMore(att, max_attempts) == att <= max_attempts

\* the for-loop has another attempt after the one numbered att
HasNext(att, max_attempts) == att + 1 <= max_attempts

\* a counter shared by the calls in the place of the loop variable
NextAttemptShared(c) ==
    (CHOOSE m \in {attempt[d] : d \in DOMAIN attempt} :
        \A d \in DOMAIN attempt : attempt[d] <= m) + 1

\* the value of the loop variable in the next iteration
NextAttempt(c) == attempt[c] + 1

\* the first failure is kept
RecordErrorKeepFirst(old, err) == IF old = NoError THEN err ELSE old

\* error = err
RecordError(old, err) == err

\* the recorded error is passed in the place of None
GuardPathErrorRecorded(err) == err

\* the error argument of handle_retry.retry on the guard path
GuardPathError(err) == NoError

\* an empty dict is passed in the place of the keyword arguments
RetryKwargsDropped(kw) == Dict({})

\* the kwargs argument of handle_retry.retry
RetryKwargs(kw) == kw

\* the arguments of handle_retry.retry(func, args, kwargs, err, attempt)
RetryArgs(c, err) == <<c, args[c], RetryKwargs(kwargs[c]), err, attempt[c]>>

\* what handler.retry does when called with callargs: a TypeError when the
\* number of arguments is not the number of its parameters; otherwise it
\* returns, RetryWithExponentialBackoff after sleeping the delay of its
\* attempt argument
HandlerOutcome(handler, callargs, c, at) ==
    IF Len(callargs) # RetryParams(handler)
    THEN [t |-> "exc", exc |-> Failure("TypeError", "retry", c, at), slept |-> 0]
    ELSE IF handler = "RetryWithExponentialBackoff"
         THEN [t |-> "ret", exc |-> NoError, slept |-> callargs[1]]
         ELSE [t |-> "ret", exc |-> NoError, slept |-> 0]

\* the recorded error is ignored after the loop
FinalReturnsResult(err, res) == [t |-> "return", exc |-> NoError, val |-> res]

\* after the loop: raise error if one was recorded, else return result
Final(err, res) ==
    IF err # NoError
    THEN [t |-> "raise", exc |-> err, val |-> NoneValue]
    ELSE [t |-> "return", exc |-> NoError, val |-> res]

NoOutcome == [t |-> "none", exc |-> NoError, val |-> NoneValue]

(* ------------------------------ history --------------------------------- *)

\* func is called without the keyword arguments
FuncArgsPositionalOnly(c) == [args |-> args[c], kwargs |-> Dict({})]

\* the arguments of func(*args, **kwargs)
FuncArgs(c) == [args |-> args[c], kwargs |-> kwargs[c]]

FuncEvent(c, out, val, exc) ==
    [ev |-> "func", attempt |-> attempt[c], args |-> FuncArgs(c).args,
     kwargs |-> FuncArgs(c).kwargs,
     error |-> NoError, out |-> out, val |-> val, exc |-> exc, slept |-> 0]

RetryEvent(callargs, ho) ==
    [ev |-> "retry", attempt |-> callargs[5], args |-> callargs[2],
     kwargs |-> callargs[3], error |-> callargs[4], out |-> ho.t,
     val |-> NoneValue, exc |-> ho.exc, slept |-> ho.slept]

(* --------------------------------- Groups -------------------------------- *)

GroupIds == 1 .. NumGroups

\* what a method of Groups gave: nothing yet, a returned value or a raised
\* failure
GNone == [t |-> "none"]
GReturn(v) == [t |-> "return", val |-> v]
GRaise(f) == [t |-> "raise", exc |-> f]

\* the failure that request.execute() raised for the i-th request of the call
HttpFailure(i) == [kind |-> "HttpError", request |-> i]

\* a response of the service: the keys the dict has, and the values under
\* its entries key and under nextPageToken
Response(keys, entries, token) ==
    [keys |-> keys, entries |-> entries, nextPageToken |-> token]

NoResponse == Response({}, << >>, "")

\* no Groups object is in use
GroupsIdle ==
    /\ gMemberships = {} /\ gBefore = {}
    /\ gpc = "off"
    /\ gArg = [method |-> "none"]
    /\ gIndex = 0
    /\ gReqs = << >>
    /\ gRet = GNone
    /\ gToken = "" /\ gList = << >> /\ gResp = NoResponse

(* ------------------------- BigQueryTableRelease -------------------------- *)

TableIds == 1 .. NumTables
Schemas == 1 .. NumSchemas

\* the table does not exist: get_table raises NotFound
Absent == 0

\* what a method of BigQueryTableRelease gave: nothing yet, a returned
\* value ("True", "False", "None") or a raised failure
BQNone == [t |-> "none", val |-> "", exc |-> ""]
BQReturn(v) == [t |-> "return", val |-> v, exc |-> ""]
BQRaise(k) == [t |-> "raise", val |-> "", exc |-> k]

\* a request sent through self.client, and whether it came back without
\* raising (a get_table of a missing table raises NotFound)
BQRequest(op, table, ok) == [op |-> op, table |-> table, ok |-> ok]

\* exist_table: client.get_table finds the table (True, table.schema) or
\* raises NotFound (False, None)
ExistTable(tables, table) == tables[table] # Absent

\* what create_table returns after client.create_table has succeeded: the
\* method ends without a return statement
CreateTableReturns == BQReturn("None")

BQIdle ==
    /\ bqTables = [t \in TableIds |-> Absent]
    /\ bqpc = "off"
    /\ bqArg = [table |-> 0, schema |-> 0]
    /\ bqReqs = << >>
    /\ bqRet = BQNone

\* a BigQueryTableRelease is built on a service that holds some tables;
\* nothing is wrapped and no delay calculator is built
InitBQ ==
    /\ bqTables \in [TableIds -> {Absent} \cup Schemas]
    /\ bqpc = "idle"
    /\ bqArg = [table |-> 0, schema |-> 0]
    /\ bqReqs = << >>
    /\ bqRet = BQNone
    /\ policy = << >> /\ pc = << >> /\ args = << >> /\ kwargs = << >>
    /\ attempt = << >> /\ error = << >> /\ result = << >>
    /\ outcome = << >> /\ trace = << >>
    /\ dcfg = [base |-> 0, exponent |-> 0, jitter |-> FALSE, max_delay |-> 0]
    /\ dattempt = 0
    /\ dprev = [t |-> "none", d |-> [k |-> "nan", e |-> 0], r |-> [k |-> "nan", e |-> 0]]
    /\ dlast = dprev
    /\ GroupsIdle

\* create_table(table_access, schema) is called
CreateTableCall ==
    /\ bqpc \in {"idle", "done"}
    /\ \E t \in TableIds, sch \in Schemas : bqArg' = [table |-> t, schema |-> sch]
    /\ bqpc' = "exist"
    /\ bqReqs' = << >>
    /\ bqRet' = BQNone
    /\ UNCHANGED <<bqTables, rvars, dvars, gvars>>

\* exist, _ = self.exist_table(table_access); if exist: return False.
\* A failure of get_table other than NotFound leaves create_table.
CreateTableExist ==
    /\ bqpc = "exist"
    /\ \E served \in BOOLEAN :
          /\ bqReqs' = Append(bqReqs, BQRequest("get_table", bqArg.table,
                                 served /\ ExistTable(bqTables, bqArg.table)))
          /\ IF ~served
             THEN bqpc' = "done" /\ bqRet' = BQRaise("ServiceError")
             ELSE IF ExistTable(bqTables, bqArg.table)
                  THEN bqpc' = "done" /\ bqRet' = BQReturn("False")
                  ELSE bqpc' = "create" /\ bqRet' = bqRet
    /\ UNCHANGED <<bqTables, bqArg, rvars, dvars, gvars>>

\* self.client.create_table(new_table) in the try block: the service
\* creates the table, or the request fails (Conflict when the table exists
\* by now) and the failure is raised again
CreateTableRequest ==
    /\ bqpc = "create"
    /\ \E served \in BOOLEAN :
          LET ok == served /\ bqTables[bqArg.table] = Absent IN
          /\ bqReqs' = Append(bqReqs, BQRequest("create_table", bqArg.table, ok))
          /\ IF ok
             THEN /\ bqTables' = [bqTables EXCEPT ![bqArg.table] = bqArg.schema]
                  /\ bqRet' = CreateTableReturns
             ELSE /\ UNCHANGED bqTables
                  /\ bqRet' = BQRaise(IF served THEN "Conflict" ELSE "ServiceError")
    /\ bqpc' = "done"
    /\ UNCHANGED <<bqArg, rvars, dvars, gvars>>

\* another client of the service creates or deletes a table
OtherClient ==
    /\ bqpc # "off"
    /\ \E t \in TableIds, x \in {Absent} \cup Schemas :
          /\ bqTables[t] # x
          /\ bqTables' = [bqTables EXCEPT ![t] = x]
    /\ UNCHANGED <<bqpc, bqArg, bqReqs, bqRet, rvars, dvars, gvars>>

\* drop_table(table_access, backup) is called; with backup the name of the
\* backup table is table_id + the timestamp of a new ulid, some other name
\* of the dataset
DropTableCall ==
    /\ bqpc \in {"idle", "done"}
    /\ \E t \in TableIds, backup \in BOOLEAN :
          \E b \in TableIds \ {t} :
          /\ bqArg' = [table |-> t, backup |-> backup, backup_table |-> b]
          /\ bqpc' = IF backup THEN "copy_src" ELSE "delete"
    /\ bqReqs' = << >>
    /\ bqRet' = BQNone
    /\ UNCHANGED <<bqTables, rvars, dvars, gvars>>

\* copy_table: exists, src_table_schema = self.exist_table(src_table_access);
\* if not exists: return. copy_table then returns None and drop_table goes
\* on to its delete_table; a failure other than NotFound leaves both.
CopyTableExistSrc ==
    /\ bqpc = "copy_src"
    /\ \E served \in BOOLEAN :
          /\ bqReqs' = Append(bqReqs, BQRequest("get_table", bqArg.table,
                                 served /\ ExistTable(bqTables, bqArg.table)))
          /\ IF ~served
             THEN bqpc' = "done" /\ bqRet' = BQRaise("ServiceError")
             ELSE /\ bqRet' = bqRet
                  /\ bqpc' = IF ExistTable(bqTables, bqArg.table)
                             THEN "copy_dest" ELSE "delete"
    /\ UNCHANGED <<bqTables, bqArg, rvars, dvars, gvars>>

\* copy_table: dest_table_exists, _ = self.exist_table(dest_table_access);
\* if dest_table_exists: return
CopyTableExistDest ==
    /\ bqpc = "copy_dest"
    /\ \E served \in BOOLEAN :
          /\ bqReqs' = Append(bqReqs, BQRequest("get_table", bqArg.backup_table,
                                 served /\ ExistTable(bqTables, bqArg.backup_table)))
          /\ IF ~served
             THEN bqpc' = "done" /\ bqRet' = BQRaise("ServiceError")
             ELSE /\ bqRet' = bqRet
                  /\ bqpc' = IF ExistTable(bqTables, bqArg.backup_table)
                             THEN "delete" ELSE "copy_job"
    /\ UNCHANGED <<bqTables, bqArg, rvars, dvars, gvars>>

\* copy_table: job = self.client.copy_table(src, dest); job.result(). The
\* job copies the table, or fails (the source is gone by now, the
\* destination exists by now, the service fails) and the failure is raised
\* again through copy_table and drop_table
CopyTableJob ==
    /\ bqpc = "copy_job"
    /\ \E served \in BOOLEAN :
          LET ok == /\ served
                    /\ bqTables[bqArg.table] # Absent
                    /\ bqTables[bqArg.backup_table] = Absent IN
          /\ bqReqs' = Append(bqReqs, BQRequest("copy_table", bqArg.table, ok))
          /\ IF ok
             THEN /\ bqTables' = [bqTables EXCEPT
                                     ![bqArg.backup_table] = bqTables[bqArg.table]]
                  /\ bqpc' = "delete"
                  /\ bqRet' = bqRet
             ELSE /\ UNCHANGED bqTables
                  /\ bqpc' = "done"
                  /\ bqRet' = BQRaise(IF ~served THEN "ServiceError"
                                      ELSE IF bqTables[bqArg.table] = Absent
                                           THEN "NotFound" ELSE "Conflict")
    /\ UNCHANGED <<bqArg, rvars, dvars, gvars>>

\* drop_table: self.client.delete_table(table_id, not_found_ok=False), on
\* both branches of backup; the method then ends without a return value
DropTableDelete ==
    /\ bqpc = "delete"
    /\ \E served \in BOOLEAN :
          LET ok == served /\ bqTables[bqArg.table] # Absent IN
          /\ bqReqs' = Append(bqReqs, BQRequest("delete_table", bqArg.table, ok))
          /\ IF ok
             THEN /\ bqTables' = [bqTables EXCEPT ![bqArg.table] = Absent]
                  /\ bqRet' = BQReturn("None")
             ELSE /\ UNCHANGED bqTables
                  /\ bqRet' = BQRaise(IF served THEN "NotFound" ELSE "ServiceError")
    /\ bqpc' = "done"
    /\ UNCHANGED <<bqArg, rvars, dvars, gvars>>

NextBQ ==
    \/ CreateTableCall
    \/ CreateTableExist
    \/ CreateTableRequest
    \/ DropTableCall
    \/ CopyTableExistSrc
    \/ CopyTableExistDest
    \/ CopyTableJob
    \/ DropTableDelete
    \/ OtherClient

SpecBQ == InitBQ /\ [][NextBQ]_vars

(* ------------------------- the delay calculator -------------------------- *)

\* Floats are modelled exactly on the numbers 0, 2^e, inf and nan: products
\* and comparisons of powers of two are exact in binary floating point.
Zero == [k |-> "zero", e |-> 0]
Pow2(e) == [k |-> "pow2", e |-> e]
Inf == [k |-> "inf", e |-> 0]
NaN == [k |-> "nan", e |-> 0]

\* a float is below 2^FloatMaxExp
FloatMaxExp == 1024

\* a * b on floats: a product of 2^FloatMaxExp or more is inf, inf * 0 is nan
FMul(a, b) ==
    IF a.k = "nan" \/ b.k = "nan" THEN NaN
    ELSE IF a.k = "inf" \/ b.k = "inf"
         THEN (IF a.k = "zero" \/ b.k = "zero" THEN NaN ELSE Inf)
    ELSE IF a.k = "zero" \/ b.k = "zero" THEN Zero
    ELSE IF a.e + b.e >= FloatMaxExp THEN Inf
    ELSE Pow2(a.e + b.e)

\* a < b on floats: false when either is nan
FLess(a, b) ==
    IF a.k = "nan" \/ b.k = "nan" THEN FALSE
    ELSE IF a.k = "inf" THEN FALSE
    ELSE IF b.k = "inf" THEN TRUE
    ELSE IF b.k = "zero" THEN FALSE
    ELSE IF a.k = "zero" THEN TRUE
    ELSE a.e < b.e

\* min(a, b) of Python: b when b < a, else a
PyMin(a, b) == IF FLess(b, a) THEN b ELSE a

\* the fields of a DelayWithExponential: base = 2^base, exponent =
\* 2^exponent (> 1), max_delay = 2^max_delay, and the jitter flag
DelayConfigs ==
    [base : {-3, 0, 2}, exponent : {1, 2}, jitter : BOOLEAN, max_delay : {3, 12}]

NoDelayConfig == [base |-> 0, exponent |-> 0, jitter |-> FALSE, max_delay |-> 0]

\* what random() can give: a float in [0, 1)
RandomValues == {Zero} \cup {Pow2(-j) : j \in 1 .. JitterBits}

\* self._exponent ** attempt overflows: the power is 2^FloatMaxExp or more,
\* too large for a float (OverflowError, from ** on a float exponent and from
\* the conversion of the int power in float * int)
PowerOverflows(cfg, att) == cfg.exponent * att >= FloatMaxExp

\* delay *= random()
Jittered(delay, r) == FMul(delay, r)

\* min over the ceiling left out
CappedNot(max_delay, delay) == delay

\* delay = min(float(self._max_delay), delay)
Capped(max_delay, delay) == PyMin(max_delay, delay)

NoDelay == [t |-> "none", d |-> NaN, r |-> NaN]

\* DelayWithExponential.__call__(attempt), r being what random() gives when
\* it is called
DelayWithExponential(cfg, att, r) ==
    IF PowerOverflows(cfg, att)
    THEN [t |-> "OverflowError", d |-> NaN, r |-> NaN]
    ELSE LET raw == FMul(Pow2(cfg.base), Pow2(cfg.exponent * att))
             delay == IF cfg.jitter THEN Jittered(raw, r) ELSE raw
         IN [t |-> "ret", d |-> Capped(Pow2(cfg.max_delay), delay),
             r |-> IF cfg.jitter THEN r ELSE NaN]

DelayIdle ==
    /\ dcfg = NoDelayConfig
    /\ dattempt = 0
    /\ dprev = NoDelay
    /\ dlast = NoDelay

\* a DelayWithExponential is built; nothing is wrapped
InitDelay ==
    /\ dcfg \in DelayConfigs
    /\ dattempt = 0
    /\ dprev = NoDelay
    /\ dlast = NoDelay
    /\ policy = << >> /\ pc = << >> /\ args = << >> /\ kwargs = << >>
    /\ attempt = << >> /\ error = << >> /\ result = << >>
    /\ outcome = << >> /\ trace = << >>
    /\ BQIdle
    /\ GroupsIdle

\* the calculator is called for the next attempt
DelayCall ==
    /\ dcfg # NoDelayConfig
    /\ dattempt < MaxDelayAttempt
    /\ dattempt' = dattempt + 1
    /\ dprev' = dlast
    /\ \E r \in (IF dcfg.jitter THEN RandomValues ELSE {NaN}) :
          dlast' = DelayWithExponential(dcfg, dattempt + 1, r)
    /\ UNCHANGED <<dcfg, rvars, bvars, gvars>>

NextDelay == DelayCall

SpecDelay == InitDelay /\ [][NextDelay]_vars

(* ------------------------------ actions --------------------------------- *)

InitFor(ids) ==
    /\ policy \in [ids -> Policies]
    /\ pc = [c \in ids |-> "idle"]
    /\ args = [c \in ids |-> <<>>]
    /\ kwargs = [c \in ids |-> Dict({})]
    /\ attempt = [c \in ids |-> 0]
    /\ error = [c \in ids |-> NoError]
    /\ result = [c \in ids |-> NoneValue]
    /\ outcome = [c \in ids |-> NoOutcome]
    /\ trace = [c \in ids |-> <<>>]

Init == InitFor({1}) /\ DelayIdle /\ BQIdle /\ GroupsIdle

\* the wrapped operation is called: decorated(*args, **kwargs)
Call(c) ==
    /\ pc[c] = "idle"
    /\ \E inv \in Invocations :
          /\ args' = [args EXCEPT ![c] = inv.args]
          /\ kwargs' = [kwargs EXCEPT ![c] = inv.kwargs]
    /\ error' = [error EXCEPT ![c] = NoError]
    /\ result' = [result EXCEPT ![c] = NoneValue]
    /\ pc' = [pc EXCEPT ![c] = "loop"]
    /\ UNCHANGED <<policy, attempt, outcome, trace>>

\* for attempt in range(1, max_attempts + 1)
ForNext(c) ==
    /\ pc[c] = "loop"
    /\ IF HasNext(attempt[c], policy[c].max_attempts)
       THEN /\ attempt' = [attempt EXCEPT ![c] = NextAttempt(c)]
            /\ pc' = [pc EXCEPT ![c] = "try"]
       ELSE /\ pc' = [pc EXCEPT ![c] = "after"]
            /\ UNCHANGED attempt
    /\ UNCHANGED <<policy, args, kwargs, error, result, outcome, trace>>

\* func returns v: result = v, then the guards decide between the handler
\* and return result
FuncReturns(c) ==
    /\ pc[c] = "try"
    /\ \E v \in Values :
          /\ result' = [result EXCEPT ![c] = v]
          /\ trace' = [trace EXCEPT ![c] = Append(@, FuncEvent(c, "ret", v, NoError))]
          /\ IF AnyGuard(policy[c].conditions, v)
             THEN /\ pc' = [pc EXCEPT ![c] = "retry_result"]
                  /\ UNCHANGED outcome
             ELSE /\ pc' = [pc EXCEPT ![c] = "done"]
                  /\ outcome' = [outcome EXCEPT ![c] =
                                    [t |-> "return", exc |-> NoError, val |-> v]]
    /\ UNCHANGED <<policy, args, kwargs, attempt, error>>

\* the except clause: error = err, then retry through the handler when err
\* is allow-listed, else break
Except(c, err) ==
    /\ error' = [error EXCEPT ![c] = RecordError(error[c], err)]
    /\ pc' = [pc EXCEPT ![c] =
                 IF Retryable(err, policy[c].exceptions) THEN "retry_error" ELSE "after"]

\* func raises a failure of class k
FuncRaises(c) ==
    /\ pc[c] = "try"
    /\ \E k \in FuncKinds :
          LET err == Failure(k, "func", c, attempt[c]) IN
          /\ trace' = [trace EXCEPT ![c] = Append(@, FuncEvent(c, "exc", NoneValue, err))]
          /\ Except(c, err)
    /\ UNCHANGED <<policy, args, kwargs, attempt, result, outcome>>

\* handle_retry.retry(func, args, kwargs, None, attempt) inside the try
\* block: continue when it returns; what it raises is caught by the except
\* clause of the same try
RetryResult(c) ==
    /\ pc[c] = "retry_result"
    /\ LET callargs == RetryArgs(c, GuardPathError(error[c]))
           ho == HandlerOutcome(policy[c].handle_retry, callargs, c, attempt[c])
       IN /\ trace' = [trace EXCEPT ![c] = Append(@, RetryEvent(callargs, ho))]
          /\ IF ho.t = "ret"
             THEN /\ pc' = [pc EXCEPT ![c] = "loop"]
                  /\ UNCHANGED error
             ELSE Except(c, ho.exc)
    /\ UNCHANGED <<policy, args, kwargs, attempt, result, outcome>>

\* handle_retry.retry(func, args, kwargs, err, attempt) inside the except
\* clause: continue when it returns; what it raises leaves decorated
RetryError(c) ==
    /\ pc[c] = "retry_error"
    /\ LET callargs == RetryArgs(c, error[c])
           ho == HandlerOutcome(policy[c].handle_retry, callargs, c, attempt[c])
       IN /\ trace' = [trace EXCEPT ![c] = Append(@, RetryEvent(callargs, ho))]
          /\ IF ho.t = "ret"
             THEN /\ pc' = [pc EXCEPT ![c] = "loop"]
                  /\ UNCHANGED outcome
             ELSE /\ pc' = [pc EXCEPT ![c] = "done"]
                  /\ outcome' = [outcome EXCEPT ![c] =
                                    [t |-> "raise", exc |-> ho.exc, val |-> NoneValue]]
    /\ UNCHANGED <<policy, args, kwargs, attempt, error, result>>

\* after the loop: if error is not None: raise error; return result
AfterLoop(c) ==
    /\ pc[c] = "after"
    /\ outcome' = [outcome EXCEPT ![c] = Final(error[c], result[c])]
    /\ pc' = [pc EXCEPT ![c] = "done"]
    /\ UNCHANGED <<policy, args, kwargs, attempt, error, result, trace>>

Next ==
    \/ \E c \in DOMAIN pc : Call(c) /\ UNCHANGED <<dvars, bvars, gvars>>
    \/ \E c \in DOMAIN pc : ForNext(c) /\ UNCHANGED <<dvars, bvars, gvars>>
    \/ \E c \in DOMAIN pc : FuncReturns(c) /\ UNCHANGED <<dvars, bvars, gvars>>
    \/ \E c \in DOMAIN pc : FuncRaises(c) /\ UNCHANGED <<dvars, bvars, gvars>>
    \/ \E c \in DOMAIN pc : RetryResult(c) /\ UNCHANGED <<dvars, bvars, gvars>>
    \/ \E c \in DOMAIN pc : RetryError(c) /\ UNCHANGED <<dvars, bvars, gvars>>
    \/ \E c \in DOMAIN pc : AfterLoop(c) /\ UNCHANGED <<dvars, bvars, gvars>>

Spec == Init /\ [][Next]_vars

\* the thread that called the wrapped operation keeps running: a step of
\* decorated that can be taken is taken
SpecLive == Init /\ [][Next]_vars /\ WF_vars(Next)

\* two independently wrapped operations, each with its own policy, called
\* concurrently: their steps interleave in any order
ConcPolicies ==
    [handle_retry : Handlers, exceptions : {{"HttpError"}, {"TypeError"}},
     conditions : {<<{1}>>}, max_attempts : 1 .. MaxAttemptsBound]

InitConc ==
    /\ InitFor({1, 2})
    /\ DelayIdle
    /\ BQIdle
    /\ GroupsIdle
    /\ policy[1] \in ConcPolicies
    /\ policy[2] \in ConcPolicies
    /\ policy[1].exceptions = {"HttpError"}
    /\ policy[2].exceptions = {"TypeError"}

SpecConc == InitConc /\ [][Next]_vars

(* ----------------------------- Groups methods --------------------------- *)

\* the lists a caller passes as group_ids
RECURSIVE SeqsUpTo(_, _)
SeqsUpTo(S, n) ==
    IF n = 0 THEN {<< >>}
    ELSE LET shorter == SeqsUpTo(S, n - 1) IN
         shorter \cup {Append(q, x) : q \in shorter, x \in S}

GroupIdLists == SeqsUpTo(GroupIds, MaxGroupIds)

\* a request sent through self.cloud_identity_service, and whether
\* execute() came back without raising
DeleteRequest(group, ok) == [op |-> "memberships.delete", group |-> group, ok |-> ok]

\* remove_memberships_from_all_groups after remove_membership: a removal
\* that raised is printed and raised again, otherwise the for loop goes on
AfterRemovalSwallowed(ok) == "next"

AfterRemoval(ok) == IF ok THEN "next" ELSE "raise"

\* a Groups object is built on a service where the member has some
\* memberships; nothing is wrapped, no delay calculator or table client is
\* built
InitGroups ==
    /\ gMemberships \in SUBSET GroupIds
    /\ gBefore = gMemberships
    /\ gpc = "idle"
    /\ gArg = [method |-> "none"]
    /\ gIndex = 0
    /\ gReqs = << >>
    /\ gRet = GNone
    /\ gToken = "" /\ gList = << >> /\ gResp = NoResponse
    /\ policy = << >> /\ pc = << >> /\ args = << >> /\ kwargs = << >>
    /\ attempt = << >> /\ error = << >> /\ result = << >>
    /\ outcome = << >> /\ trace = << >>
    /\ DelayIdle
    /\ BQIdle

\* remove_memberships_from_all_groups(membership_id, group_ids) is called
RemoveAllCall ==
    /\ gpc = "idle"
    /\ \E ids \in GroupIdLists :
          gArg' = [method |-> "remove_memberships_from_all_groups", group_ids |-> ids]
    /\ gBefore' = gMemberships
    /\ gIndex' = 0
    /\ gpc' = "for"
    /\ gReqs' = << >>
    /\ gRet' = GNone
    /\ gToken' = "" /\ gList' = << >> /\ gResp' = NoResponse
    /\ UNCHANGED <<gMemberships, rvars, dvars, bvars>>

\* for group_id in group_ids: the next entry of the list, or the end of the
\* method, which returns None
RemoveAllFor ==
    /\ gpc = "for"
    /\ IF gIndex < Len(gArg.group_ids)
       THEN gIndex' = gIndex + 1 /\ gpc' = "remove" /\ gRet' = gRet
       ELSE gIndex' = gIndex /\ gpc' = "done" /\ gRet' = GReturn("None")
    /\ UNCHANGED <<gMemberships, gBefore, gArg, gReqs, gToken, gList, gResp,
                   rvars, dvars, bvars>>

\* remove_membership(group_id=group_id, membership_id=membership_id): the
\* delete request is executed; the service removes the membership, or the
\* request fails (no such membership, or the service fails),
\* remove_membership raises the failure again and so does its caller
RemoveMembership ==
    /\ gpc = "remove"
    /\ \E served \in BOOLEAN :
          LET group == gArg.group_ids[gIndex]
              ok == served /\ group \in gMemberships IN
          /\ gReqs' = Append(gReqs, DeleteRequest(group, ok))
          /\ gMemberships' = IF ok THEN gMemberships \ {group} ELSE gMemberships
          /\ IF AfterRemoval(ok) = "next"
             THEN gpc' = "for" /\ gRet' = gRet
             ELSE gpc' = "done" /\ gRet' = GRaise(HttpFailure(Len(gReqs) + 1))
    /\ UNCHANGED <<gBefore, gArg, gIndex, gToken, gList, gResp, rvars, dvars, bvars>>

\* list_groups asks for pages of 50
ListPageSize == 50

\* the page_size a caller passes to search_transitive_groups
PageSizes == {1, ListPageSize}

\* the key under which a response carries its entries
EntriesKey(method) == IF method = "list_groups" THEN "groups" ELSE "memberships"

\* 'key' in response
Has(response, key) == key \in response.keys

\* the entries of a page: a group resource of groups().list, a membership
\* relation of searchTransitiveGroups; a resource name is kept as its
\* segments between the slashes
PageEntry(method, g) ==
    IF method = "list_groups"
    THEN [name |-> <<"groups", g>>, groupKey |-> [id |-> <<g, "@example.com">>]]
    ELSE [group |-> <<"groups", g>>, relationType |-> "DIRECT"]

EntryLists(method) ==
    {<< >>, <<PageEntry(method, 2), PageEntry(method, 1)>>}

PageTokens == {"", "t1", "t2"}

\* what the service may answer to a page request of the method
Responses(method) ==
    {Response({}, << >>, "")}
    \cup {Response({EntriesKey(method)}, es, "") : es \in EntryLists(method)}
    \cup {Response({"nextPageToken"}, << >>, t) : t \in PageTokens}
    \cup {Response({EntriesKey(method), "nextPageToken"}, es, t) :
              es \in EntryLists(method), t \in PageTokens}

\* (info['name'].split('/')[1], info['groupKey']['id'])
GroupTuple(info) == <<info.name[2], info.groupKey.id>>

\* what the loop body adds to group_list
Accumulate(method, list, response) ==
    IF method = "list_groups"
    THEN IF Has(response, "groups") /\ Len(response.entries) > 0
         THEN list \o [i \in DOMAIN response.entries |-> GroupTuple(response.entries[i])]
         ELSE list
    ELSE IF Has(response, "memberships")
         THEN list \o response.entries
         ELSE list

\* if 'nextPageToken' in response: next_page_token = response['nextPageToken']
\* else: next_page_token = ''
NextPageTokenDropped(response) == ""

NextPageToken(response) ==
    IF Has(response, "nextPageToken") THEN response.nextPageToken ELSE ""

\* if len(next_page_token) == 0: break
LoopBreaks(token) == token = ""

\* a page request sent through self.cloud_identity_service with its query
\* parameters, whether execute() came back without raising, and its response
PageRequest(op, token, size, ok, response) ==
    [op |-> op, page_token |-> token, page_size |-> size, ok |-> ok,
     response |-> response]

\* list_groups() or search_transitive_groups(member, page_size) is called:
\* next_page_token = '', group_list = []
ListCall ==
    /\ gpc = "idle"
    /\ \/ gArg' = [method |-> "list_groups", page_size |-> ListPageSize]
       \/ \E size \in PageSizes :
             gArg' = [method |-> "search_transitive_groups", page_size |-> size]
    /\ gToken' = ""
    /\ gList' = << >>
    /\ gResp' = NoResponse
    /\ gIndex' = 0
    /\ gBefore' = gMemberships
    /\ gpc' = "page_request"
    /\ gReqs' = << >>
    /\ gRet' = GNone
    /\ UNCHANGED <<gMemberships, rvars, dvars, bvars>>

\* the head of the while True body: the request is built with page_token =
\* next_page_token and executed; the service answers with a page, or the
\* request fails and the method raises the failure again
ListRequest ==
    /\ gpc = "page_request"
    /\ Len(gReqs) < MaxRequests
    /\ \/ \E response \in Responses(gArg.method) :
             /\ gReqs' = Append(gReqs, PageRequest(gArg.method, gToken,
                                                  gArg.page_size, TRUE, response))
             /\ gResp' = response
             /\ gpc' = "page_process"
             /\ gRet' = gRet
       \/ /\ gReqs' = Append(gReqs, PageRequest(gArg.method, gToken,
                                                gArg.page_size, FALSE, NoResponse))
          /\ gResp' = gResp
          /\ gpc' = "done"
          /\ gRet' = GRaise(HttpFailure(Len(gReqs) + 1))
    /\ UNCHANGED <<gMemberships, gBefore, gArg, gIndex, gToken, gList,
                   rvars, dvars, bvars>>

\* the rest of the while True body: the entries of the page are added to
\* group_list, next_page_token is taken from the response, and the loop is
\* left with return group_list when it is empty
ListProcess ==
    /\ gpc = "page_process"
    /\ gList' = Accumulate(gArg.method, gList, gResp)
    /\ gToken' = NextPageToken(gResp)
    /\ IF LoopBreaks(gToken')
       THEN gpc' = "done" /\ gRet' = GReturn(gList')
       ELSE gpc' = "page_request" /\ gRet' = gRet
    /\ UNCHANGED <<gMemberships, gBefore, gArg, gIndex, gReqs, gResp,
                   rvars, dvars, bvars>>

NextGroups ==
    \/ RemoveAllCall
    \/ RemoveAllFor
    \/ RemoveMembership
    \/ ListCall
    \/ ListRequest
    \/ ListProcess

SpecGroups == InitGroups /\ [][NextGroups]_vars

\* the thread that called the method keeps running, and the service
\* answers every request
SpecGroupsLive == InitGroups /\ [][NextGroups]_vars /\ WF_vars(NextGroups)

(* ------------------------- vocabulary of the claims ---------------------- *)

Calls == DOMAIN pc

\* the invocations of func, and of the handler, a call has made so far
Funcs(c) == SelectSeq(trace[c], LAMBDA e : e.ev = "func")
Retries(c) == SelectSeq(trace[c], LAMBDA e : e.ev = "retry")

\* the failure f is of an allow-listed class of the policy of c
AllowListed(c, f) ==
    \/ f.kind \in policy[c].exceptions
    \/ "Exception" \in policy[c].exceptions

\* some guard of the policy of c is true of the value v
Rejected(c, v) == \E i \in DOMAIN policy[c].conditions : v \in policy[c].conditions[i]

\* every handler invocation of the call has returned
HandlerReturned(c) == \A i \in DOMAIN trace[c] : trace[c][i].ev = "retry" => trace[c][i].out = "ret"

Returned(c, v) == outcome[c] = [t |-> "return", exc |-> NoError, val |-> v]
Raised(c, f) == outcome[c] = [t |-> "raise", exc |-> f, val |-> NoneValue]

\* every invocation of func so far raised an allow-listed failure
AlwaysRetryable(c) ==
    \A i \in DOMAIN Funcs(c) : Funcs(c)[i].out = "exc" /\ AllowListed(c, Funcs(c)[i].exc)

(* ------------------------------- C1 -------------------------------------- *)

\* C1: a finished call whose func raised an allow-listed failure at every
\* invocation, and whose handler returned at every invocation, has invoked
\* func exactly max_attempts times and the handler exactly max_attempts
\* times, and raises the failure of the last invocation of func.
C1_AlwaysRetryableExhausts ==
    \A c \in Calls :
        (pc[c] = "done" /\ HandlerReturned(c) /\ AlwaysRetryable(c))
        => LET fs == Funcs(c) IN
           /\ Len(fs) = policy[c].max_attempts
           /\ Len(Retries(c)) = policy[c].max_attempts
           /\ fs[Len(fs)].attempt = policy[c].max_attempts
           /\ Raised(c, fs[Len(fs)].exc)

C1_Witness ==
    \E c \in Calls :
        /\ pc[c] = "done" /\ HandlerReturned(c) /\ AlwaysRetryable(c)
        /\ policy[c].max_attempts = 3
        /\ Len(Funcs(c)) = 3 /\ Len(Retries(c)) = 3
        /\ Funcs(c)[1].exc.kind # Funcs(c)[3].exc.kind
        /\ Raised(c, Funcs(c)[3].exc)

(* ------------------------------- C2 -------------------------------------- *)

\* C2: an invocation of func that raised a failure of no allow-listed class
\* is the last thing the call invoked (no handler, no further func), the
\* call is past its loop, and when it has finished it raised that failure.
C2_NonRetryableStops ==
    \A c \in Calls : \A i \in DOMAIN trace[c] :
        LET e == trace[c][i] IN
        (e.ev = "func" /\ e.out = "exc" /\ ~AllowListed(c, e.exc))
        => /\ i = Len(trace[c])
           /\ pc[c] \in {"after", "done"}
           /\ pc[c] = "done" => Raised(c, e.exc)

C2_Witness ==
    \E c \in Calls :
        /\ pc[c] = "done"
        /\ Len(Funcs(c)) = 2 /\ Len(Retries(c)) = 1
        /\ Funcs(c)[1].out = "exc"
        /\ Funcs(c)[2].out = "exc" /\ ~AllowListed(c, Funcs(c)[2].exc)
        /\ Raised(c, Funcs(c)[2].exc)

(* ------------------------------- C3 -------------------------------------- *)

\* C3: a finished call whose func returned a guard-rejected value at the
\* attempts 1..k-1 and a value no guard rejects at attempt k returns the
\* value of attempt k, having invoked func exactly k times and the handler
\* exactly k-1 times.
C3_AcceptedAtAttemptK ==
    \A c \in Calls :
        LET fs == Funcs(c)
            k == Len(fs)
        IN (/\ pc[c] = "done" /\ k >= 1
            /\ \A i \in 1 .. k : fs[i].out = "ret"
            /\ \A i \in 1 .. k - 1 : Rejected(c, fs[i].val)
            /\ ~Rejected(c, fs[k].val))
           => /\ Returned(c, fs[k].val)
              /\ fs[k].attempt = k
              /\ k <= policy[c].max_attempts
              /\ Len(Retries(c)) = k - 1

C3_Witness ==
    \E c \in Calls :
        /\ pc[c] = "done"
        /\ Len(Funcs(c)) = 3 /\ Len(Retries(c)) = 2
        /\ \A i \in 1 .. 3 : Funcs(c)[i].out = "ret"
        /\ Rejected(c, Funcs(c)[1].val) /\ Rejected(c, Funcs(c)[2].val)
        /\ ~Rejected(c, Funcs(c)[3].val)
        /\ Returned(c, Funcs(c)[3].val)

(* ------------------------------- C4 -------------------------------------- *)

\* C4: a finished call whose guards reject every value, whose func never
\* raised and whose handler returned at every invocation returns the value
\* of invocation max_attempts of func (no failure is raised), having invoked
\* the handler exactly max_attempts times.
C4_SilentExhaustion ==
    \A c \in Calls :
        LET fs == Funcs(c) IN
        (/\ pc[c] = "done" /\ HandlerReturned(c)
         /\ \A v \in Values : Rejected(c, v)
         /\ \A i \in DOMAIN fs : fs[i].out = "ret")
        => /\ Len(fs) = policy[c].max_attempts
           /\ Len(Retries(c)) = policy[c].max_attempts
           /\ Returned(c, fs[Len(fs)].val)

C4_Witness ==
    \E c \in Calls :
        /\ pc[c] = "done" /\ HandlerReturned(c)
        /\ \A v \in Values : Rejected(c, v)
        /\ policy[c].max_attempts = 2
        /\ Len(Funcs(c)) = 2 /\ Len(Retries(c)) = 2
        /\ Funcs(c)[1].out = "ret" /\ Funcs(c)[2].out = "ret"
        /\ Funcs(c)[1].val # Funcs(c)[2].val
        /\ Returned(c, Funcs(c)[2].val)

(* ------------------------------- C5 -------------------------------------- *)

\* C5: a finished call that has exhausted max_attempts (its handler having
\* returned at every invocation) ends as its last attempt decides: the last
\* attempt raised an allow-listed failure and the call raises that failure,
\* or the last attempt returned a guard-rejected value and the call returns
\* that value, whatever the earlier attempts did.
C5_LastAttemptDecides ==
    \A c \in Calls :
        LET fs == Funcs(c)
            n == Len(fs)
        IN (pc[c] = "done" /\ HandlerReturned(c) /\ n = policy[c].max_attempts)
           => /\ (fs[n].out = "exc" /\ AllowListed(c, fs[n].exc)) => Raised(c, fs[n].exc)
              /\ (fs[n].out = "ret" /\ Rejected(c, fs[n].val)) => Returned(c, fs[n].val)

(* ------------------------------- C6 -------------------------------------- *)

\* C6: an invocation of func that returned a value no guard rejects is the
\* last thing the call invoked (no handler, no further func), and the call
\* has finished by returning that value, whatever the earlier attempts did.
C6_AcceptedReturnsAtOnce ==
    \A c \in Calls : \A i \in DOMAIN trace[c] :
        LET e == trace[c][i] IN
        (e.ev = "func" /\ e.out = "ret" /\ ~Rejected(c, e.val))
        => /\ i = Len(trace[c])
           /\ pc[c] = "done"
           /\ Returned(c, e.val)

C6_Witness ==
    \E c \in Calls :
        /\ pc[c] = "done"
        /\ Len(Funcs(c)) = 3
        /\ Funcs(c)[1].out = "exc"
        /\ Funcs(c)[2].out = "ret" /\ Rejected(c, Funcs(c)[2].val)
        /\ Funcs(c)[3].out = "ret" /\ ~Rejected(c, Funcs(c)[3].val)
        /\ policy[c].max_attempts = 3
        /\ Returned(c, Funcs(c)[3].val)

(* ------------------------------- C7 -------------------------------------- *)

\* C7: with RetryWithExponentialBackoff as the handler, every handler
\* invocation returns after sleeping the delay of the attempt it was invoked
\* for, and a finished call whose func raised an allow-listed failure at
\* every invocation has invoked func max_attempts times.
C7_DefaultHandlerSleeps ==
    \A c \in Calls :
        policy[c].handle_retry = "RetryWithExponentialBackoff"
        => /\ \A i \in DOMAIN Retries(c) :
                 /\ Retries(c)[i].out = "ret"
                 /\ Retries(c)[i].slept = Retries(c)[i].attempt
           /\ (pc[c] = "done" /\ AlwaysRetryable(c))
              => Len(Funcs(c)) = policy[c].max_attempts

(* ------------------------------- C8 -------------------------------------- *)

\* C8: a handler invocation that follows an invocation of func carries the
\* outcome of that attempt: its attempt argument is the attempt of that
\* invocation, and its error argument is the failure func raised there, or
\* None when func returned a (guard-rejected) value there.
C8_HandlerGetsCurrentOutcome ==
    \A c \in Calls : \A i \in DOMAIN trace[c] :
        (trace[c][i].ev = "retry")
        => /\ i >= 2
           /\ trace[c][i - 1].ev = "func"
              => LET h == trace[c][i]
                     f == trace[c][i - 1]
                 IN /\ h.attempt = f.attempt
                    /\ f.out = "exc" => (h.error = f.exc /\ AllowListed(c, f.exc))
                    /\ f.out = "ret" => (h.error = NoError /\ Rejected(c, f.val))

C8_Witness ==
    \E c \in Calls :
        /\ Len(trace[c]) = 4
        /\ trace[c][1].ev = "func" /\ trace[c][1].out = "exc"
        /\ trace[c][2].ev = "retry" /\ trace[c][2].error = trace[c][1].exc
        /\ trace[c][2].attempt = 1
        /\ trace[c][3].ev = "func" /\ trace[c][3].out = "ret"
        /\ trace[c][4].ev = "retry" /\ trace[c][4].error = NoError
        /\ trace[c][4].attempt = 2

(* ------------------------------- C9 -------------------------------------- *)

\* C9: the failure a finished call raises is a failure func raised during
\* that call, and a call whose last invocation of func raised a failure of
\* no allow-listed class does not end by returning.
C9_OnlyFuncFailuresPropagate ==
    \A c \in Calls :
        pc[c] = "done"
        => /\ outcome[c].t = "raise"
              => \E i \in DOMAIN Funcs(c) :
                    Funcs(c)[i].out = "exc" /\ Funcs(c)[i].exc = outcome[c].exc
           /\ LET e == trace[c][Len(trace[c])] IN
              (e.ev = "func" /\ e.out = "exc" /\ ~AllowListed(c, e.exc))
              => outcome[c].t = "raise"

(* ------------------------------- C10 ------------------------------------- *)

\* the failure the except clause of the call caught last: raised by func, or
\* by the handler invoked on the guard path (inside the try block)
LastCaught(c) ==
    LET caught == {i \in DOMAIN trace[c] :
                      /\ trace[c][i].out = "exc"
                      /\ trace[c][i].ev = "retry" => trace[c][i].error = NoError}
    IN IF caught = {} THEN NoError
       ELSE trace[c][CHOOSE i \in caught : \A j \in caught : j <= i].exc

\* the value func returned last in the call
LastReturned(c) ==
    LET rets == {i \in DOMAIN Funcs(c) : Funcs(c)[i].out = "ret"}
    IN IF rets = {} THEN NoneValue
       ELSE Funcs(c)[CHOOSE i \in rets : \A j \in rets : j <= i].val

\* C10: with the steps of two calls interleaved, the attempt counter, the
\* recorded error and the result of each call are determined by what that
\* call itself has invoked, as when it runs alone; each call invokes its func
\* at most its own max_attempts times, and returns a value its own func
\* returned or raises a failure raised in that call.
C10_CallsDoNotInterfere ==
    \A c \in Calls :
        /\ attempt[c] = Len(Funcs(c)) + (IF pc[c] = "try" THEN 1 ELSE 0)
        /\ error[c] = LastCaught(c)
        /\ result[c] = LastReturned(c)
        /\ Len(Funcs(c)) <= policy[c].max_attempts
        /\ \A i \in DOMAIN trace[c] :
              /\ trace[c][i].attempt \in 1 .. policy[c].max_attempts
              /\ trace[c][i].exc.call \in {0, c}
        /\ outcome[c].t = "return" => outcome[c].val = LastReturned(c)
        /\ outcome[c].t = "raise"
           => \E i \in DOMAIN trace[c] :
                 trace[c][i].out = "exc" /\ trace[c][i].exc = outcome[c].exc

C10_Witness ==
    /\ Calls = {1, 2}
    /\ pc[1] = "retry_error" /\ attempt[1] = 3
    /\ pc[2] = "try" /\ attempt[2] = 2
    /\ policy[1].max_attempts # policy[2].max_attempts
    /\ error[1].call = 1 /\ error[2] = NoError
    /\ result[1] # result[2] /\ result[2] # NoneValue

(* ---------------------------- C11, C12, C13 ------------------------------ *)

\* log2 of base * exponent^att, and of min(max_delay, base * exponent^att),
\* as real numbers
RawExp(cfg, att) == cfg.base + cfg.exponent * att
CeilExp(cfg, att) ==
    IF RawExp(cfg, att) <= cfg.max_delay THEN RawExp(cfg, att) ELSE cfg.max_delay

\* C11: with jitter disabled, every call of the calculator for an attempt
\* >= 1 returns exactly min(max_delay, base * exponent^attempt).
C11_DelayIsCappedPower ==
    (dattempt >= 1 /\ ~dcfg.jitter)
    => /\ dlast.t = "ret"
       /\ dlast.d = Pow2(CeilExp(dcfg, dattempt))

\* C12: with jitter enabled, whatever random() gives, a delay the
\* calculator returns is a number in [0, min(max_delay, base *
\* exponent^attempt)]; with or without jitter a returned delay is a number
\* from 0 to max_delay.
C12_DelayInRange ==
    (dattempt >= 1 /\ dlast.t = "ret")
    => /\ dlast.d.k \in {"zero", "pow2"}
       /\ dlast.d.k = "pow2"
          => /\ dlast.d.e <= CeilExp(dcfg, dattempt)
             /\ dlast.d.e <= dcfg.max_delay

C12_Witness ==
    /\ dcfg.jitter
    /\ dattempt = 3
    /\ dlast.t = "ret" /\ dlast.r = Pow2(-1)
    /\ dlast.d = Pow2(RawExp(dcfg, 3) - 1)
    /\ RawExp(dcfg, 3) - 1 < dcfg.max_delay
    /\ dprev.t = "ret" /\ dprev.r = Zero /\ dprev.d = Zero

\* C13: with jitter disabled, the delay of attempt + 1 is at least the
\* delay of attempt, for every attempt >= 1: greater while base *
\* exponent^(attempt+1) is below max_delay, and max_delay once the ceiling
\* is reached.
C13_DelayMonotone ==
    (dattempt >= 2 /\ ~dcfg.jitter)
    => /\ dprev.t = "ret" /\ dlast.t = "ret"
       /\ dprev.d.k = "pow2" /\ dlast.d.k = "pow2"
       /\ dprev.d.e <= dlast.d.e
       /\ RawExp(dcfg, dattempt) < dcfg.max_delay => dprev.d.e < dlast.d.e
       /\ RawExp(dcfg, dattempt) >= dcfg.max_delay => dlast.d = Pow2(dcfg.max_delay)

(* ------------------------------- C14 ------------------------------------- *)

\* C14: every wrapped call ends (returns or raises); it never invokes func
\* more than max_attempts times, nor, its handler having returned at every
\* invocation, the handler more than max_attempts times, whatever func
\* returns or raises.
C14_TerminatesWithinMaxAttempts ==
    /\ <>(\A c \in Calls : pc[c] = "done" /\ outcome[c].t \in {"return", "raise"})
    /\ [](\A c \in Calls :
             /\ Len(Funcs(c)) <= policy[c].max_attempts
             /\ HandlerReturned(c) => Len(Retries(c)) <= policy[c].max_attempts)

C14_Witness ==
    \E c \in Calls :
        /\ pc[c] = "done" /\ HandlerReturned(c)
        /\ policy[c].max_attempts = 3
        /\ Len(Funcs(c)) = 3 /\ Len(Retries(c)) = 3
        /\ Funcs(c)[1].out = "exc" /\ Funcs(c)[2].out = "ret" /\ Funcs(c)[3].out = "exc"
        /\ outcome[c].t = "raise"

(* ------------------------------- C15 ------------------------------------- *)

\* C15: in a call the invocations of func and of the handler alternate,
\* func first, and invocation k of the handler carries attempt = k, after
\* invocation k of func and before invocation k+1.
C15_FuncAndHandlerAlternate ==
    \A c \in Calls : \A i \in DOMAIN trace[c] :
        /\ trace[c][i].ev = (IF i % 2 = 1 THEN "func" ELSE "retry")
        /\ trace[c][i].attempt = (i + 1) \div 2

(* ------------------------------- C17 ------------------------------------- *)

\* Python's None
PyNone == [tag |-> "None"]

\* C17 as stated: every handler invocation is passed None as kwargs.
C17_HandlerKwargsNone ==
    \A c \in Calls : \A i \in DOMAIN Retries(c) : Retries(c)[i].kwargs = PyNone

\* C17 as amended: every handler invocation, on the failure path and on the
\* guard path alike, is passed as kwargs the dict of keyword arguments the
\* wrapped call was given (the empty dict when it was given none), never
\* None.
C17_HandlerKwargsPassedThrough ==
    \A c \in Calls : \A i \in DOMAIN Retries(c) :
        /\ Retries(c)[i].kwargs = kwargs[c]
        /\ Retries(c)[i].kwargs # PyNone
        /\ Retries(c)[i].args = args[c]

C17_Witness ==
    \E c \in Calls :
        /\ kwargs[c] = Dict({<<"timeout", 1>>})
        /\ Len(Retries(c)) = 2
        /\ Retries(c)[1].error # NoError /\ Retries(c)[1].kwargs = kwargs[c]
        /\ Retries(c)[2].error = NoError /\ Retries(c)[2].kwargs = kwargs[c]
        /\ Retries(c)[2].out = "ret"

(* ------------------------------- C18 ------------------------------------- *)

\* C18: a call that returns a value returns what the most recent invocation
\* of func returned; the last thing the call invoked did not raise.
C18_ReturnsMostRecentResult ==
    \A c \in Calls :
        outcome[c].t = "return"
        => LET fs == Funcs(c) IN
           /\ Len(fs) >= 1
           /\ fs[Len(fs)].out = "ret"
           /\ outcome[c].val = fs[Len(fs)].val
           /\ trace[c][Len(trace[c])].out = "ret"

C18_Witness ==
    \E c \in Calls :
        /\ outcome[c].t = "return"
        /\ Len(Funcs(c)) = 2 /\ Len(Retries(c)) = 2
        /\ Funcs(c)[1].out = "ret" /\ Funcs(c)[2].out = "ret"
        /\ Rejected(c, Funcs(c)[2].val)
        /\ Funcs(c)[1].val # Funcs(c)[2].val
        /\ outcome[c].val = Funcs(c)[2].val

(* ------------------------------- C19 ------------------------------------- *)

\* C19: the handler is invoked at most once for each attempt index; a
\* handler invocation that raised is the last thing the call invoked (its
\* failure is not classified and retried), and the call that has ended
\* raised that failure.
C19_HandlerOncePerAttempt ==
    \A c \in Calls :
        /\ \A i, j \in DOMAIN Retries(c) :
              Retries(c)[i].attempt = Retries(c)[j].attempt => i = j
        /\ \A i \in DOMAIN trace[c] :
              (trace[c][i].ev = "retry" /\ trace[c][i].out = "exc")
              => /\ i = Len(trace[c])
                 /\ pc[c] = "done" => Raised(c, trace[c][i].exc)

(* ------------------------------- C20 ------------------------------------- *)

\* C20: every invocation of func in a call receives the positional and the
\* keyword arguments the call was given, at every attempt.
C20_FuncGetsTheCallArguments ==
    \A c \in Calls : \A i \in DOMAIN Funcs(c) :
        /\ Funcs(c)[i].args = args[c]
        /\ Funcs(c)[i].kwargs = kwargs[c]
        /\ [args |-> args[c], kwargs |-> kwargs[c]] \in Invocations

C20_Witness ==
    \E c \in Calls :
        /\ Len(Funcs(c)) = 3
        /\ args[c] = <<1, 2>> /\ kwargs[c] = Dict({<<"timeout", 1>>})
        /\ Funcs(c)[1].out = "exc" /\ Funcs(c)[2].out = "ret"
        /\ \A i \in 1 .. 3 : Funcs(c)[i].args = <<1, 2>>
        /\ \A i \in 1 .. 3 : Funcs(c)[i].kwargs = Dict({<<"timeout", 1>>})

(* ------------------------------- C16 ------------------------------------- *)

\* the request the finished call sent last
LastBQRequest == bqReqs[Len(bqReqs)]

\* C16: a create_table call that found the table missing and whose create
\* request succeeded returns True; one that found the table existing sent
\* no create request and returns False.
C16_CreateTableReturnsBool ==
    (bqpc = "done" /\ bqReqs # << >>)
    => /\ (LastBQRequest.op = "create_table" /\ LastBQRequest.ok)
          => bqRet = BQReturn("True")
       /\ (LastBQRequest.op = "get_table" /\ LastBQRequest.ok)
          => /\ bqRet = BQReturn("False")
             /\ \A i \in DOMAIN bqReqs : bqReqs[i].op # "create_table"

(* ------------------------------- C21 ------------------------------------- *)

\* the running or finished call is drop_table with backup = True
DropWithBackup == "backup" \in DOMAIN bqArg /\ bqArg.backup

\* C21: drop_table with backup = True deletes the table only after its
\* copy_table has made the backup copy: every delete request of the call
\* that deleted the table comes after a copy request of the call that
\* succeeded.
C21_DeleteOnlyAfterBackup ==
    DropWithBackup
    => \A i \in DOMAIN bqReqs :
          (bqReqs[i].op = "delete_table" /\ bqReqs[i].ok)
          => \E j \in 1 .. (i - 1) : bqReqs[j].op = "copy_table" /\ bqReqs[j].ok

(* ------------------------------- C22 ------------------------------------- *)

RemovingAll == gArg.method = "remove_memberships_from_all_groups"

\* the groups of group_ids at the positions lo..hi
GroupsAt(lo, hi) == {gArg.group_ids[i] : i \in lo .. hi}

Listing == gArg.method \in {"list_groups", "search_transitive_groups"}

\* the response of the i-th request carries no nextPageToken or an empty one
LastPage(i) ==
    \/ "nextPageToken" \notin gReqs[i].response.keys
    \/ gReqs[i].response.nextPageToken = ""

\* the entries of the i-th page as the method hands them out: list_groups
\* gives the pair (second segment of the name, id of the group key) of every
\* group, search_transitive_groups the membership itself
EntriesOfPage(i) ==
    LET r == gReqs[i].response
        es == IF EntriesKey(gArg.method) \in r.keys THEN r.entries ELSE << >> IN
    IF gArg.method = "list_groups"
    THEN [k \in DOMAIN es |-> <<es[k].name[2], es[k].groupKey.id>>]
    ELSE es

\* the entries of the pages 1..n in page order
RECURSIVE EntriesOfPages(_)
EntriesOfPages(n) ==
    IF n = 0 THEN << >> ELSE EntriesOfPages(n - 1) \o EntriesOfPage(n)

\* the pages whose loop body has run to its end
PagesProcessed ==
    IF gpc = "page_process" \/ (gpc = "done" /\ gRet.t = "raise")
    THEN Len(gReqs) - 1 ELSE Len(gReqs)

\* the pages are requested one after another, each with the nextPageToken of
\* the response before it (the first with the empty token), the entries are
\* accumulated in page order, and a call that has returned returned them at
\* the first response without a token; a call ends otherwise only by raising
\* the failure of its last request
PagesFollowed ==
    Listing
    => /\ \A i \in DOMAIN gReqs :
            /\ gReqs[i].op = gArg.method
            /\ gReqs[i].page_size = gArg.page_size
            /\ i = 1 => gReqs[i].page_token = ""
            /\ i > 1 => /\ gReqs[i - 1].ok
                        /\ ~LastPage(i - 1)
                        /\ gReqs[i].page_token = gReqs[i - 1].response.nextPageToken
       /\ gList = EntriesOfPages(PagesProcessed)
       /\ (gpc = "done" /\ gRet.t = "return")
          => /\ gReqs # << >>
             /\ gReqs[Len(gReqs)].ok
             /\ LastPage(Len(gReqs))
             /\ gRet = GReturn(EntriesOfPages(Len(gReqs)))
       /\ (gpc = "done" /\ gRet.t = "raise")
          => /\ gReqs # << >>
             /\ ~gReqs[Len(gReqs)].ok
             /\ gRet = GRaise(HttpFailure(Len(gReqs)))

\* the service has just answered with a page that has no token
LastPageReceived ==
    /\ Listing
    /\ gpc = "page_process"
    /\ LastPage(Len(gReqs))

ListReturned == Listing /\ gpc = "done" /\ gRet.t = "return"

====
